---- MODULE Spec2Model ----
(***************************************************************************)
(* The Tic-Tac-Toe engine of client/game.ts (class Game): the 3x3 board,   *)
(* the turn order, the play history with its six-turn expiry, the win      *)
(* check with its reset, and the part of the DOM the engine writes: the    *)
(* nine rendered cells, the win banners and the banner-removal timers.     *)
(***************************************************************************)
EXTENDS Integers, Sequences, FiniteSets, TLC

(***************************************************************************)
(* Bounds of the exploration.                                              *)
(***************************************************************************)
\* play is called while turnCount < MaxTurn
MaxTurn == 6
\* ... and, with a timeout pending, only while turnCount < MaxPendingTurn
MaxPendingTurn == 2
\* play is called with row, col in -Margin .. 2 + Margin
Margin == 1
\* showWinner is called directly while turnCount <= MaxShowTurn ...
MaxShowTurn == 1
\* ... and while fewer than MaxBanners banners are in the rendering target
MaxBanners == 2

(***************************************************************************)
(* Values of the program.                                                  *)
(***************************************************************************)
Player == {"X", "O"}
\* the empty cell (null)
Null == "null"
Cell == Player \cup {Null}
\* winnerTimeoutId = null
NoTimer == 0
\* the side of the board built by setupBoard
BoardSize == 3
\* an expiry one turn early
ExpiryAge_Early == 6 - 1
\* the age at which clearOldTurnsFromPlayHistory drops an entry
ExpiryAge == 6
Idx == 0 .. (BoardSize - 1)
Coords == (0 - Margin) .. (BoardSize - 1 + Margin)

InvalidMsg == "Invalid move. Please select a valid cell."
TakenMsg == "Cell already taken. Choose another one."
\* play returned without a value
Void == "void"
\* no play call has returned yet
NoCall == "nocall"
WinMsg(p) == p \o " wins!"
WinMsgs == {WinMsg(p) : p \in Player}

Last(s) == s[Len(s)]
\* array.length of a 0-indexed array
Length(a) == Cardinality(DOMAIN a)
\* a JavaScript array read: undefined outside the array
Undefined == "undefined"
At(a, i) == IF i \in DOMAIN a THEN a[i] ELSE Undefined
\* the smallest positive integer outside S
Fresh(S) == CHOOSE n \in 1 .. (Cardinality(S) + 1) : n \notin S

VARIABLES
  board,            \* this.board: row -> col -> Cell
  currentPlayer,    \* this.currentPlayer
  turnCount,        \* this.turnCount
  playHistory,      \* this.playHistory: sequence of [player, row, col, turn]
  winnerTimeoutId,  \* this.winnerTimeoutId (NoTimer for null)
  cells,            \* the rendered cells of boardElement: row -> col -> textContent
  banners,          \* the winner-message children of boardElement: sequence of [el, text]
  timers,           \* the pending timeouts: set of [id, el], el the element its callback captured
  ret,              \* what the most recent play call returned or threw
  server            \* the static server of src/server.ts: the public directory, the request
                    \* in hand, the route it has reached and the response written

vars == <<board, currentPlayer, turnCount, playHistory, winnerTimeoutId,
          cells, banners, timers, ret, server>>

\* the Game object and its rendering target, as one value
This == [board |-> board, currentPlayer |-> currentPlayer, turnCount |-> turnCount,
         playHistory |-> playHistory, winnerTimeoutId |-> winnerTimeoutId,
         cells |-> cells, banners |-> banners, timers |-> timers]

(***************************************************************************)
(* The methods of Game, each as the object after the call.                 *)
(***************************************************************************)
EmptyBoard == [r \in Idx |-> [c \in Idx |-> Null]]

\* a setupBoard that leaves currentPlayer as it is
setupBoard_KeepsPlayer(g) ==
  [g EXCEPT !.board = EmptyBoard, !.turnCount = 0, !.playHistory = <<>>]

\* a setupBoard that leaves turnCount as it is
setupBoard_KeepsTurn(g) ==
  [g EXCEPT !.board = EmptyBoard, !.currentPlayer = "X", !.playHistory = <<>>]

\* a setupBoard that leaves playHistory as it is
setupBoard_KeepsHistory(g) ==
  [g EXCEPT !.board = EmptyBoard, !.currentPlayer = "X", !.turnCount = 0]

setupBoard(g) ==
  [g EXCEPT !.board = EmptyBoard, !.currentPlayer = "X", !.turnCount = 0,
            !.playHistory = <<>>]

\* isValidCell without the lower bound on col
isValidCell_NoLowerCol(g, row, col) ==
  /\ row >= 0
  /\ row < Length(g.board)
  /\ col < Length(g.board[row])

isValidCell(g, row, col) ==
  /\ row >= 0
  /\ row < Length(g.board)
  /\ col >= 0
  /\ col < Length(g.board[row])

\* a cell content that shows only X
updateCellContent_OnlyX(cell) == IF cell = "X" THEN "X" ELSE ""

\* textContent = cell: null renders as the empty text
updateCellContent(cell) == IF cell = Null THEN "" ELSE cell

\* the cell element built for one cell, as its text (its classes and its
\* opacity are functions of the same cell and entry and are left out)
processCell(g, cell, rowIndex, colIndex) == updateCellContent(cell)

\* innerHTML = "" removes every child, the banners included; then the cells are rebuilt
renderBoard(g) ==
  [g EXCEPT !.banners = <<>>,
            !.cells = [r \in DOMAIN g.board |->
                         [c \in DOMAIN g.board[r] |-> processCell(g, g.board[r][c], r, c)]]]

\* a reset that restarts the game but leaves the marks on the board
resetBoard_KeepsMarks(g) == renderBoard([setupBoard(g) EXCEPT !.board = g.board])

resetBoard(g) == renderBoard(setupBoard(g))

InBounds(g, play) ==
  /\ play.row >= 0
  /\ play.row < Length(g.board)
  /\ play.col >= 0
  /\ play.col < Length(g.board[play.row])

\* an expiry test that drops an entry one turn early
isOld_Early(g, play) == g.turnCount - play.turn >= ExpiryAge - 1

\* an expiry test that lets an entry live one turn longer
isOld_Strict(g, play) == g.turnCount - play.turn > ExpiryAge

\* an entry that has reached the expiry age
isOld(g, play) == g.turnCount - play.turn >= ExpiryAge

RECURSIVE filterFrom(_, _, _, _)
\* the filter of clearOldTurnsFromPlayHistory from entry i of h on: the callback
\* runs on each entry in order, clears the cell of an old one, and the kept
\* entries become playHistory
filterFrom(g, h, i, kept) ==
  IF i > Len(h) THEN [g EXCEPT !.playHistory = kept]
  ELSE IF ~InBounds(g, h[i]) THEN filterFrom(g, h, i + 1, kept)
  ELSE IF isOld(g, h[i])
       THEN filterFrom([g EXCEPT !.board[h[i].row][h[i].col] = Null], h, i + 1, kept)
  ELSE filterFrom(g, h, i + 1, Append(kept, h[i]))

clearOldTurnsFromPlayHistory(g) == filterFrom(g, g.playHistory, 1, <<>>)

updateBoardWithPlay(g, play) ==
  IF InBounds(g, play)
  THEN [g EXCEPT !.board[play.row][play.col] = play.player]
  ELSE g

updateBoard(g) ==
  LET g1 == clearOldTurnsFromPlayHistory(g)
  IN  IF Len(g1.playHistory) > 0
      THEN updateBoardWithPlay(g1, Last(g1.playHistory))
      ELSE g1

\* a checkWin that does not look at the column
checkWin_NoColumn(g, row, col) ==
  LET player == g.board[row][col]
      n == Length(g.board)
  IN  /\ player # Null
      /\ \/ \A c \in DOMAIN g.board[row] : g.board[row][c] = player
         \/ (row = col /\ \A i \in DOMAIN g.board : g.board[i][i] = player)
         \/ (row + col = n - 1 /\ \A i \in DOMAIN g.board : g.board[i][n - 1 - i] = player)

\* a checkWin whose anti-diagonal test is off by one
checkWin_AntiOffByOne(g, row, col) ==
  LET player == g.board[row][col]
      n == Length(g.board)
  IN  /\ player # Null
      /\ \/ \A c \in DOMAIN g.board[row] : g.board[row][c] = player
         \/ \A r \in DOMAIN g.board : g.board[r][col] = player
         \/ (row = col /\ \A i \in DOMAIN g.board : g.board[i][i] = player)
         \/ (row + col = n /\ \A i \in DOMAIN g.board : g.board[i][n - 1 - i] = player)

checkWin(g, row, col) ==
  LET player == g.board[row][col]
      n == Length(g.board)
  IN  /\ player # Null
      /\ \/ \A c \in DOMAIN g.board[row] : g.board[row][c] = player
         \/ \A r \in DOMAIN g.board : g.board[r][col] = player
         \/ (row = col /\ \A i \in DOMAIN g.board : g.board[i][i] = player)
         \/ (row + col = n - 1 /\ \A i \in DOMAIN g.board : g.board[i][n - 1 - i] = player)

\* a showWinner that schedules the new timeout without clearing the pending one
showWinner_NoClear(g, winner) ==
  LET el == Fresh({b.el : b \in {g.banners[i] : i \in 1 .. Len(g.banners)}}
                  \cup {t.el : t \in g.timers})
      id == Fresh({t.id : t \in g.timers})
  IN  [g EXCEPT !.banners = Append(g.banners, [el |-> el, text |-> WinMsg(winner)]),
                !.timers = g.timers \cup {[id |-> id, el |-> el]},
                !.winnerTimeoutId = id]

showWinner(g, winner) ==
  LET g1 == IF g.winnerTimeoutId # NoTimer
            THEN [g EXCEPT !.timers = {t \in g.timers : t.id # g.winnerTimeoutId},
                           !.winnerTimeoutId = NoTimer]
            ELSE g
      el == Fresh({b.el : b \in {g1.banners[i] : i \in 1 .. Len(g1.banners)}}
                  \cup {t.el : t \in g1.timers})
      id == Fresh({t.id : t \in g1.timers})
  IN  [g1 EXCEPT !.banners = Append(g1.banners, [el |-> el, text |-> WinMsg(winner)]),
                 !.timers = g1.timers \cup {[id |-> id, el |-> el]},
                 !.winnerTimeoutId = id]

\* the timeout callback scheduled by showWinner
timeoutCallback(g, t) ==
  [g EXCEPT !.banners = SelectSeq(g.banners, LAMBDA b : b.el # t.el),
            !.winnerTimeoutId = NoTimer,
            !.timers = g.timers \ {t}]

\* a cell-taken test that rejects only the mover's own marks
isTaken_OwnOnly(g, row, col) == At(g.board[row], col) = g.currentPlayer

\* the cell-taken test of play
isTaken(g, row, col) == At(g.board[row], col) # Null

\* an update that records the turn after incrementing it
placeMark_TurnAfter(g, row, col) ==
  [g EXCEPT !.board[row][col] = g.currentPlayer,
            !.playHistory = Append(g.playHistory,
                                   [player |-> g.currentPlayer, row |-> row,
                                    col |-> col, turn |-> g.turnCount + 1]),
            !.turnCount = g.turnCount + 1]

\* play's update for the current player's move
placeMark(g, row, col) ==
  [g EXCEPT !.board[row][col] = g.currentPlayer,
            !.playHistory = Append(g.playHistory,
                                   [player |-> g.currentPlayer, row |-> row,
                                    col |-> col, turn |-> g.turnCount]),
            !.turnCount = g.turnCount + 1]

\* a switch that never hands the turn back to X
switchPlayer_AlwaysO(g) == [g EXCEPT !.currentPlayer = "O"]

\* play's switch to the other player
switchPlayer(g) ==
  [g EXCEPT !.currentPlayer = IF g.currentPlayer = "X" THEN "O" ELSE "X"]

\* a play that reads the winner after the reset
play_WinnerAfterReset(g, row, col) ==
  IF ~isValidCell(g, row, col) THEN [g |-> g, ret |-> InvalidMsg]
  ELSE IF isTaken(g, row, col) THEN [g |-> g, ret |-> TakenMsg]
  ELSE
    LET g2 == renderBoard(updateBoard(placeMark(g, row, col)))
    IN  IF checkWin(g2, row, col)
        THEN LET g3 == resetBoard(g2)
                 winner == g3.currentPlayer
             IN  [g |-> showWinner(g3, winner), ret |-> WinMsg(winner)]
        ELSE [g |-> switchPlayer(g2), ret |-> Void]

\* play(row, col): the object after the call and what the call returned or threw
play(g, row, col) ==
  IF ~isValidCell(g, row, col) THEN [g |-> g, ret |-> InvalidMsg]
  ELSE IF isTaken(g, row, col) THEN [g |-> g, ret |-> TakenMsg]
  ELSE
    LET g2 == renderBoard(updateBoard(placeMark(g, row, col)))
    IN  IF checkWin(g2, row, col)
        THEN LET winner == g2.currentPlayer
             IN  [g |-> showWinner(resetBoard(g2), winner), ret |-> WinMsg(winner)]
        ELSE [g |-> switchPlayer(g2), ret |-> Void]

\* nothing was thrown
NoError == "none"

\* the click listener createCellElement adds to the cell (rowIndex, colIndex):
\* () => this.play(rowIndex, colIndex), with no try around the call, so what
\* play throws leaves the listener
clickListener(g, rowIndex, colIndex) ==
  LET r == play(g, rowIndex, colIndex)
  IN  [g |-> r.g, ret |-> r.ret,
       thrown |-> IF r.ret \in {InvalidMsg, TakenMsg} THEN r.ret ELSE NoError]

(***************************************************************************)
(* The state machine.                                                      *)
(***************************************************************************)
Become(g) ==
  /\ board' = g.board
  /\ currentPlayer' = g.currentPlayer
  /\ turnCount' = g.turnCount
  /\ playHistory' = g.playHistory
  /\ winnerTimeoutId' = g.winnerTimeoutId
  /\ cells' = g.cells
  /\ banners' = g.banners
  /\ timers' = g.timers

(***************************************************************************)
(* The static server of src/server.ts.  Express runs the routes in the     *)
(* order setUpStaticFilesServer registers them and calls each handler as   *)
(* handler(req, res, next); an exception thrown by a handler goes to the   *)
(* error-handling middleware.                                               *)
(***************************************************************************)
\* the files the public directory may hold, as request paths
PublicFiles == {"/index.html", "/scripts/main.js"}
\* the request paths explored
Paths == PublicFiles \cup {"/", "/missing", "/scripts/"}
Methods == {"GET", "HEAD", "POST"}
NoStatus == 0
\* the methods of an Express request and of an Express response that the
\* handlers of server.ts call
RequestMethods == {"get", "header", "accepts"}
ResponseMethods == {"status", "send", "sendFile"}
TypeErrorOf(m) == "res." \o m \o " is not a function"

\* the server waiting for a request, with public directory files
Listening(files) ==
  [files |-> files, pc |-> "listening", method |-> "", path |-> "",
   status |-> NoStatus, body |-> "", err |-> ""]

\* the file express.static finds for a path: the file itself, or index.html for "/"
StaticFile(sv) ==
  IF sv.path \in sv.files THEN sv.path
  ELSE IF sv.path = "/" /\ "/index.html" \in sv.files THEN "/index.html"
  ELSE ""

\* app.use("/", express.static(publicDirectoryPath))
serveStatic(sv) ==
  IF sv.method \in {"GET", "HEAD"} /\ StaticFile(sv) # ""
  THEN [sv EXCEPT !.status = 200, !.body = StaticFile(sv), !.pc = "done"]
  ELSE [sv EXCEPT !.pc = "index"]

\* app.get("/", (res) => res.sendFile(...)): the handler's one parameter is
\* the first argument of handler(req, res, next), the request
indexRoute(sv) ==
  IF sv.method \in {"GET", "HEAD"} /\ sv.path = "/"
  THEN IF "sendFile" \in RequestMethods
       THEN [sv EXCEPT !.status = 200, !.body = "/index.html", !.pc = "done"]
       ELSE [sv EXCEPT !.err = TypeErrorOf("sendFile"), !.pc = "error"]
  ELSE [sv EXCEPT !.pc = "all"]

\* app.all("*", (res) => res.status(404).send("404 Not Found")): again the
\* parameter named res is the request
notFoundRoute(sv) ==
  IF "status" \in RequestMethods
  THEN [sv EXCEPT !.status = 404, !.body = "404 Not Found", !.pc = "done"]
  ELSE [sv EXCEPT !.err = TypeErrorOf("status"), !.pc = "error"]

\* handleErrors(err, _req, res, next): 500 and the message, then next(err),
\* which finds the response already sent
handleErrors(sv) ==
  [sv EXCEPT !.status = 500, !.body = "Something broke: " \o sv.err, !.pc = "done"]

\* new Game(boardElement): the constructor's assignments, then init()
Constructed ==
  renderBoard(setupBoard([board |-> <<>>, currentPlayer |-> "X", turnCount |-> 0,
                          playHistory |-> <<>>, winnerTimeoutId |-> NoTimer,
                          cells |-> <<>>, banners |-> <<>>, timers |-> {}]))

Init ==
  /\ board = Constructed.board
  /\ currentPlayer = Constructed.currentPlayer
  /\ turnCount = Constructed.turnCount
  /\ playHistory = Constructed.playHistory
  /\ winnerTimeoutId = Constructed.winnerTimeoutId
  /\ cells = Constructed.cells
  /\ banners = Constructed.banners
  /\ timers = Constructed.timers
  /\ ret = NoCall
  /\ server = Listening({})

\* a call of play(row, col) by a caller
Play ==
  /\ turnCount < MaxTurn
  /\ timers # {} => turnCount < MaxPendingTurn
  /\ \E row \in Coords, col \in Coords :
       \E r \in {play(This, row, col)} : Become(r.g) /\ ret' = r.ret
  /\ UNCHANGED server

\* a click on the rendered cell (rowIndex, colIndex)
Click ==
  /\ turnCount < MaxTurn
  /\ timers # {} => turnCount < MaxPendingTurn
  /\ \E rowIndex \in DOMAIN cells :
       \E colIndex \in DOMAIN cells[rowIndex] :
         \E c \in {clickListener(This, rowIndex, colIndex)} : Become(c.g) /\ ret' = c.ret
  /\ UNCHANGED server

\* a direct call of showWinner(winner)
ShowWinner ==
  /\ turnCount <= MaxShowTurn
  /\ Len(banners) < MaxBanners
  /\ \E winner \in Player : Become(showWinner(This, winner))
  /\ UNCHANGED <<ret, server>>

\* a pending timeout fires
TimerFire ==
  /\ \E t \in timers : Become(timeoutCallback(This, t))
  /\ UNCHANGED <<ret, server>>

Next == Play \/ Click \/ ShowWinner \/ TimerFire

\* the server is started on a public directory holding any of PublicFiles
ServerInit ==
  /\ board = Constructed.board
  /\ currentPlayer = Constructed.currentPlayer
  /\ turnCount = Constructed.turnCount
  /\ playHistory = Constructed.playHistory
  /\ winnerTimeoutId = Constructed.winnerTimeoutId
  /\ cells = Constructed.cells
  /\ banners = Constructed.banners
  /\ timers = Constructed.timers
  /\ ret = NoCall
  /\ server \in {Listening(files) : files \in SUBSET PublicFiles}

game == <<board, currentPlayer, turnCount, playHistory, winnerTimeoutId,
          cells, banners, timers, ret>>

\* a request arrives
Request ==
  /\ server.pc = "listening"
  /\ \E method \in Methods, path \in Paths :
       server' = [Listening(server.files) EXCEPT !.method = method, !.path = path,
                                                  !.pc = "static"]
  /\ UNCHANGED game

ServeStatic ==
  /\ server.pc = "static"
  /\ server' = serveStatic(server)
  /\ UNCHANGED game

IndexRoute ==
  /\ server.pc = "index"
  /\ server' = indexRoute(server)
  /\ UNCHANGED game

NotFoundRoute ==
  /\ server.pc = "all"
  /\ server' = notFoundRoute(server)
  /\ UNCHANGED game

HandleErrors ==
  /\ server.pc = "error"
  /\ server' = handleErrors(server)
  /\ UNCHANGED game

\* the response has gone out; the server waits for the next request
Respond ==
  /\ server.pc = "done"
  /\ server' = [server EXCEPT !.pc = "listening"]
  /\ UNCHANGED game

ServerNext ==
  Request \/ ServeStatic \/ IndexRoute \/ NotFoundRoute \/ HandleErrors \/ Respond

ServerSpec == ServerInit /\ [][ServerNext]_vars

Spec == Init /\ [][Next]_vars

\* every pending timeout eventually fires
FairSpec == Spec /\ WF_vars(TimerFire)

(***************************************************************************)
(* The claims.  Each is stated over the outcome of play(row, col) in every *)
(* reachable state, for every row and col of the explored range.           *)
(***************************************************************************)
EngineOf(g) == <<g.board, g.currentPlayer, g.turnCount, g.playHistory>>
Accepted(r) == r.ret \notin {InvalidMsg, TakenMsg}
Range(s) == {s[i] : i \in 1 .. Len(s)}
Other(p) == IF p = "X" THEN "O" ELSE "X"
OutOfRange(row, col) == row < 0 \/ row > 2 \/ col < 0 \/ col > 2

\* C1: in every reachable state, play(row, col) with row or col outside 0..2
\* throws the invalid-cell error and leaves board, currentPlayer, turnCount
\* and playHistory as they were.
C1_InvalidCellRejected ==
  \A row \in Coords, col \in Coords :
    OutOfRange(row, col) =>
      LET r == play(This, row, col)
      IN  /\ r.ret = InvalidMsg
          /\ EngineOf(r.g) = EngineOf(This)

\* an invalid-cell failure in a game under way
C1_Witness ==
  /\ ret = InvalidMsg
  /\ turnCount > 0
  /\ playHistory # <<>>

\* C2: in every reachable state, play on an in-range cell holding X or O
\* throws the cell-taken error, which is not the invalid-cell error, and
\* leaves the engine as it was; so also for a mark the next accepted move
\* would expire.
C2_TakenCellRejected ==
  /\ TakenMsg # InvalidMsg
  /\ \A row \in Idx, col \in Idx :
       board[row][col] \in Player =>
         LET r == play(This, row, col)
         IN  /\ r.ret = TakenMsg
             /\ EngineOf(r.g) = EngineOf(This)

\* a cell-taken failure while an entry is one move from expiry
C2_Witness ==
  /\ ret = TakenMsg
  /\ \E e \in Range(playHistory) :
       /\ turnCount + 1 - e.turn >= ExpiryAge
       /\ board[e.row][e.col] = e.player

\* what an accepted move leaves behind when no reset follows
MoveEffect(g, r, row, col) ==
  LET e == [player |-> g.currentPlayer, row |-> row, col |-> col, turn |-> g.turnCount]
      h == r.g.playHistory
  IN  /\ r.g.board[row][col] = g.currentPlayer
      /\ Len(h) >= 1
      /\ Last(h) = e
      /\ e \notin Range(g.playHistory)
      /\ \A i \in 1 .. (Len(h) - 1) : h[i] \in Range(g.playHistory)
      /\ r.g.turnCount = g.turnCount + 1

\* C3 as stated: every accepted play(r, c), winning or not, leaves the
\* mover's mark at (r, c), one appended entry and turnCount + 1, and toggles
\* currentPlayer when it does not win.
C3_Original ==
  \A row \in Idx, col \in Idx :
    LET r == play(This, row, col)
    IN  Accepted(r) =>
          /\ MoveEffect(This, r, row, col)
          /\ r.ret \notin WinMsgs => r.g.currentPlayer = Other(currentPlayer)

\* C3 amended: every accepted play(r, c) that does not win leaves the
\* mover's mark at (r, c), exactly one appended entry {player, r, c, old
\* turnCount}, turnCount + 1 and the other player as currentPlayer.
C3_NonWinningMove ==
  \A row \in Idx, col \in Idx :
    LET r == play(This, row, col)
    IN  (Accepted(r) /\ r.ret \notin WinMsgs) =>
          /\ r.ret = Void
          /\ MoveEffect(This, r, row, col)
          /\ r.g.currentPlayer = Other(currentPlayer)

\* an accepted, non-winning move has just been made
C3_Witness ==
  /\ ret = Void
  /\ turnCount >= 1
  /\ Last(playHistory).turn = turnCount - 1
  /\ board[Last(playHistory).row][Last(playHistory).col] = Other(currentPlayer)

\* the board of state g with p's mark placed at (row, col), nothing expired
Placed(g, p, row, col) == [g.board EXCEPT ![row][col] = p]

\* a line of three p through (row, col) on board b
LineThrough(b, p, row, col) ==
  \/ \A c \in 0 .. 2 : b[row][c] = p
  \/ \A r \in 0 .. 2 : b[r][col] = p
  \/ (row = col /\ \A i \in 0 .. 2 : b[i][i] = p)
  \/ (row + col = 2 /\ \A i \in 0 .. 2 : b[i][2 - i] = p)

\* C4: an accepted play(r, c) by p returns "<p> wins!" exactly when, on the
\* board with p's mark placed at (r, c), the row r, the column c, the main
\* diagonal (r = c) or the anti-diagonal (r + c = 2) holds three p; every
\* other accepted play returns no value.
C4_WinIffLine ==
  \A row \in Idx, col \in Idx :
    LET r == play(This, row, col)
        line == LineThrough(Placed(This, currentPlayer, row, col), currentPlayer, row, col)
    IN  Accepted(r) =>
          /\ (r.ret = WinMsg(currentPlayer)) <=> line
          /\ ~line => r.ret = Void

\* X has just completed a line: the call returned "X wins!"
C4_Witness ==
  /\ ret = WinMsg("X")
  /\ turnCount = 0
  /\ Len(banners) = 1
  /\ banners[1].text = "X wins!"

\* C5: whenever play returns a win string, for winner X or O, the engine at
\* return is the engine of a fresh Game: nine empty cells, turnCount 0, an
\* empty playHistory and currentPlayer X.
C5_WinResets ==
  \A row \in Idx, col \in Idx :
    LET r == play(This, row, col)
    IN  r.ret \in WinMsgs =>
          /\ \A i \in 0 .. 2, j \in 0 .. 2 : r.g.board[i][j] = Null
          /\ r.g.turnCount = 0
          /\ r.g.playHistory = <<>>
          /\ r.g.currentPlayer = "X"
          /\ EngineOf(r.g) = EngineOf(Constructed)

\* O has just won and X is to move on an empty board
C5_Witness ==
  /\ ret = WinMsg("O")
  /\ currentPlayer = "X"
  /\ board = EmptyBoard
  /\ playHistory = <<>>

\* C6: after every accepted move no entry e of playHistory has
\* turnCount - e.turn >= 6: an entry reaching that age is dropped in that
\* call and its cell is empty at return, and a younger entry is dropped
\* only by a win's reset.
C6_Expiry ==
  \A row \in Idx, col \in Idx :
    LET r == play(This, row, col)
        now == turnCount + 1
    IN  Accepted(r) =>
          /\ \A e \in Range(r.g.playHistory) : ~(r.g.turnCount - e.turn >= 6)
          /\ \A e \in Range(playHistory) :
               /\ now - e.turn >= 6 =>
                    /\ e \notin Range(r.g.playHistory)
                    /\ r.g.board[e.row][e.col] = Null
               /\ (now - e.turn < 6 /\ r.ret \notin WinMsgs) =>
                    /\ e \in Range(r.g.playHistory)
                    /\ r.g.board[e.row][e.col] = e.player

\* the sixth move of a game has just expired the first
C6_Witness ==
  /\ ret = Void
  /\ turnCount = 6
  /\ Len(playHistory) = 5
  /\ playHistory[1].turn = 1
  /\ Cardinality({rc \in Idx \X Idx : board[rc[1]][rc[2]] # Null}) = 5

MoveStep == turnCount' = turnCount + 1
\* a step that is a winning move
WinStep == turnCount > 0 /\ turnCount' = 0

\* C8: an accepted non-winning move is made by currentPlayer and hands the
\* turn to the other symbol; nothing else changes currentPlayer except a
\* win's reset, and every game starts with X: the movers between two wins
\* alternate X, O, X, O, ...
C8_Alternation ==
  /\ turnCount = 0 => currentPlayer = "X"
  /\ [][/\ MoveStep =>
            /\ Last(playHistory').player = currentPlayer
            /\ currentPlayer' = Other(currentPlayer)
        /\ currentPlayer' # currentPlayer => MoveStep \/ WinStep
        /\ turnCount' = 0 => currentPlayer' = "X"
        /\ turnCount' # turnCount => MoveStep \/ WinStep]_vars

\* X, O, X have moved in turn
C8_Witness ==
  /\ turnCount = 3
  /\ currentPlayer = "O"
  /\ [i \in 1 .. 3 |-> playHistory[i].player] = <<"X", "O", "X">>

\* the i-th move of the row-major game: cell (floor(i / 3), i % 3)
RowMajorRow(i) == i \div 3
RowMajorCol(i) == i % 3

RECURSIVE AfterRowMajor(_)
\* the Game after the first k moves of the row-major game on a fresh Game
AfterRowMajor(k) ==
  IF k = 0 THEN Constructed
  ELSE play(AfterRowMajor(k - 1), RowMajorRow(k - 1), RowMajorCol(k - 1)).g

RowMajorGame == [k \in 0 .. 6 |-> EngineOf(AfterRowMajor(k))]
\* the engine stands where k row-major moves on a fresh Game leave it
AtRowMajor(k) == EngineOf(This) = RowMajorGame[k]

\* C9 as stated: from a fresh engine the seven row-major moves (0,0) ..
\* (2,0) are all accepted without a win, and after the seventh cell (0,0)
\* is empty and playHistory holds only entries with turnCount - turn < 6.
C9_Original ==
  \A k \in 0 .. 6 :
    AtRowMajor(k) =>
      LET r == play(This, RowMajorRow(k), RowMajorCol(k))
      IN  /\ r.ret = Void
          /\ k = 6 =>
               /\ r.g.board[0][0] = Null
               /\ \A e \in Range(r.g.playHistory) : r.g.turnCount - e.turn < 6

\* C9 amended: the first six row-major moves are accepted without a win and
\* the sixth expires the first move's entry (cell (0,0) empty, the five
\* entries of turns 1..5 left); the seventh, X at (2,0), is accepted and
\* completes X's anti-diagonal (0,2), (1,1), (2,0): it returns "X wins!" and
\* resets the engine, so cell (0,0) is empty and playHistory is empty.
C9_RowMajorGame ==
  \A k \in 0 .. 6 :
    AtRowMajor(k) =>
      LET r == play(This, RowMajorRow(k), RowMajorCol(k))
      IN  /\ Accepted(r)
          /\ k < 6 => r.ret = Void
          /\ k = 5 =>
               /\ r.g.board[0][0] = Null
               /\ [i \in 1 .. Len(r.g.playHistory) |-> r.g.playHistory[i].turn]
                    = <<1, 2, 3, 4, 5>>
          /\ k = 6 =>
               /\ \A i \in 0 .. 2 : board[i][2 - i] = IF i = 2 THEN Null ELSE "X"
               /\ r.ret = "X wins!"
               /\ r.g.board[0][0] = Null
               /\ r.g.playHistory = <<>>
               /\ r.g.turnCount = 0

\* six row-major moves have been made and the seventh is due
C9_Witness ==
  /\ AtRowMajor(6)
  /\ ret = Void
  /\ turnCount = 6
  /\ board[0][0] = Null
  /\ board[2][0] = Null

BannerEls == {banners[i].el : i \in 1 .. Len(banners)}
\* the elements showWinner can create within the bounds
ElIds == 1 .. (MaxBanners + 2)

\* C10: every win banner added to the rendering target is eventually
\* removed from it, given only that every pending timer eventually fires.
C10_BannerRemoved ==
  \A e \in ElIds : (e \in BannerEls) ~> (e \notin BannerEls)

\* C11: at most one banner-removal timer is pending at any moment, and
\* winnerTimeoutId is non-null exactly when one is, naming it; a showWinner
\* that runs while an earlier timer is pending cancels that timer (it is no
\* longer pending, so its callback never runs) before it schedules its own.
C11_OneTimer ==
  /\ Cardinality(timers) <= 1
  /\ (winnerTimeoutId # NoTimer) <=> (timers # {})
  /\ \A t \in timers : t.id = winnerTimeoutId
  /\ \A winner \in Player :
       LET g == showWinner(This, winner)
       IN  /\ Cardinality(g.timers) = 1
           /\ g.winnerTimeoutId # NoTimer
           /\ \A t \in g.timers :
                /\ t.id = g.winnerTimeoutId
                /\ t.el = g.banners[Len(g.banners)].el
                /\ \A i \in 1 .. Len(banners) : t.el # banners[i].el

\* showWinner has run with the timer of an earlier banner still pending
C11_Witness ==
  /\ Len(banners) = 2
  /\ Cardinality(timers) = 1
  /\ \E t \in timers : t.el = banners[2].el /\ t.id = winnerTimeoutId

\* C12: every request whose path is neither a file of the public directory
\* nor the index route "/" is answered with status 404.
C12_UnmatchedIs404 ==
  (/\ server.pc = "done"
   /\ server.path \notin server.files
   /\ server.path # "/") => server.status = 404

\* C13: for every accepted play, the call returns a win string exactly when
\* the line check holds on the board right after the mover's mark is placed,
\* before any entry is aged out; the expiry of the same call does not change
\* the outcome of the line check.
C13_WinBeforeExpiry ==
  \A row \in Idx, col \in Idx :
    LET r  == play(This, row, col)
        g1 == placeMark(This, row, col)
    IN  Accepted(r) =>
          /\ (r.ret \in WinMsgs) <=> checkWin(g1, row, col)
          /\ checkWin(g1, row, col) <=> checkWin(updateBoard(g1), row, col)

\* O has won: O's third mark is the sixth move of a game at the earliest, so
\* the winning call also aged out an entry
C13_Witness ==
  /\ ret = WinMsg("O")
  /\ turnCount = 0
  /\ Cardinality(timers) = 1

\* C14: in every accepted play the expiry removes at most one history entry;
\* the removed entry is a mark of the other player, is not the entry the call
\* appended, and the cell just played still holds the mover's mark.
C14_ExpiryRemovesOpponent ==
  \A row \in Idx, col \in Idx :
    LET r  == play(This, row, col)
        g1 == placeMark(This, row, col)
        g2 == clearOldTurnsFromPlayHistory(g1)
        removed == Range(g1.playHistory) \ Range(g2.playHistory)
    IN  Accepted(r) =>
          /\ Cardinality(removed) <= 1
          /\ Len(g1.playHistory) - Len(g2.playHistory) <= 1
          /\ \A e \in removed :
               /\ e.player # currentPlayer
               /\ e # Last(g1.playHistory)
               /\ ~(e.row = row /\ e.col = col)
          /\ g2.board[row][col] = currentPlayer
          /\ updateBoard(g1).board[row][col] = currentPlayer

\* O's sixth move has just aged out X's first mark: O's mark is on the board,
\* the oldest entry left is the second move, and X holds two cells
C14_Witness ==
  /\ ret = Void
  /\ Len(playHistory) = 5
  /\ playHistory[1].turn = 1
  /\ Last(playHistory).player = "O"
  /\ board[Last(playHistory).row][Last(playHistory).col] = "O"
  /\ Cardinality({rc \in Idx \X Idx : board[rc[1]][rc[2]] = "X"}) = 2

\* the text the rendering target shows for board b
Rendered(b) == [r \in Idx |-> [c \in Idx |-> IF b[r][c] = Null THEN "" ELSE b[r][c]]]

\* C15: after construction and after every play call, accepted, winning or
\* failed, the nine rendered cells show the nine values of board: X, O or the
\* empty text at the same row and column.
C15_ViewMatchesBoard == cells = Rendered(board)

\* a move has aged out an entry: the view shows five marks, of both players
C15_Witness ==
  /\ ret = Void
  /\ turnCount = 6
  /\ Cardinality({rc \in Idx \X Idx : cells[rc[1]][rc[2]] = "X"}) = 2
  /\ Cardinality({rc \in Idx \X Idx : cells[rc[1]][rc[2]] = "O"}) = 3
  /\ Cardinality({rc \in Idx \X Idx : cells[rc[1]][rc[2]] = ""}) = 4

\* C16: whenever play returns a win string, the string names the player who
\* made the move, a banner with that text is in the rendering target at
\* return and its removal timer is pending under winnerTimeoutId; when O wins
\* both name O although the reset has made currentPlayer X.
C16_WinnerAnnounced ==
  \A row \in Idx, col \in Idx :
    LET r == play(This, row, col)
    IN  r.ret \in WinMsgs =>
          /\ r.ret = WinMsg(currentPlayer)
          /\ r.g.currentPlayer = "X"
          /\ Len(r.g.banners) = 1
          /\ r.g.banners[1].text = WinMsg(currentPlayer)
          /\ r.g.timers = {[id |-> r.g.winnerTimeoutId, el |-> r.g.banners[1].el]}
          /\ r.g.winnerTimeoutId # NoTimer

\* O has won: the call returned "O wins!", the banner says so, its timer is
\* pending and X is to move
C16_Witness ==
  /\ ret = "O wins!"
  /\ currentPlayer = "X"
  /\ Len(banners) = 1
  /\ banners[1].text = "O wins!"
  /\ \E t \in timers : t.el = banners[1].el /\ t.id = winnerTimeoutId

\* C17: the banner of a winning play stays in the rendering target while its
\* timer is pending: from the state a winning play returned in, no step that
\* leaves the timer pending, a play call in particular, removes the banner.
C17_BannerStays ==
  [][(/\ ret \in WinMsgs
      /\ Len(banners) = 1
      /\ banners[1].text = ret
      /\ timers = {[id |-> winnerTimeoutId, el |-> banners[1].el]}
      /\ timers' = timers)
       => banners[1].el \in {banners'[i].el : i \in 1 .. Len(banners')}]_vars

\* C18: at every moment at most one win banner is in the rendering target.
C18_AtMostOneBanner == Len(banners) <= 1

\* C19: a click on a rendered cell is forwarded as play(row, col) for that
\* cell; nothing is thrown out of the click listener, and when the call fails
\* the engine is as it was.
C19_ClickCatches ==
  \A rowIndex \in Idx, colIndex \in Idx :
    LET c == clickListener(This, rowIndex, colIndex)
    IN  /\ c.ret = play(This, rowIndex, colIndex).ret
        /\ c.thrown = NoError
        /\ c.ret \in {InvalidMsg, TakenMsg} => EngineOf(c.g) = EngineOf(This)

\* C20: the board and the history agree: cell (r, c) holds p exactly when an
\* entry of playHistory has that row, column and player; no two entries name
\* the same cell; every entry lies within 0..2; the turns strictly increase.
C20_BoardMatchesHistory ==
  /\ \A r \in Idx, c \in Idx, p \in Player :
       board[r][c] = p <=>
         \E i \in 1 .. Len(playHistory) :
           /\ playHistory[i].row = r
           /\ playHistory[i].col = c
           /\ playHistory[i].player = p
  /\ \A i \in 1 .. Len(playHistory), j \in 1 .. Len(playHistory) :
       (playHistory[i].row = playHistory[j].row /\ playHistory[i].col = playHistory[j].col)
         => i = j
  /\ \A i \in 1 .. Len(playHistory) :
       playHistory[i].row \in 0 .. 2 /\ playHistory[i].col \in 0 .. 2
  /\ \A i \in 1 .. (Len(playHistory) - 1) : playHistory[i].turn < playHistory[i + 1].turn

\* after an expiry: five entries, of turns 1 to 5, and their five marks
C20_Witness ==
  /\ Len(playHistory) = 5
  /\ \A i \in 1 .. 5 :
       /\ playHistory[i].turn = i
       /\ board[playHistory[i].row][playHistory[i].col] = playHistory[i].player
  /\ Cardinality({rc \in Idx \X Idx : board[rc[1]][rc[2]] = Null}) = 4

\* the eight lines of the board, each as its three cells
Lines ==
  {{<<r, c>> : c \in 0 .. 2} : r \in 0 .. 2}
    \cup {{<<r, c>> : r \in 0 .. 2} : c \in 0 .. 2}
    \cup {{<<i, i>> : i \in 0 .. 2}, {<<i, 2 - i>> : i \in 0 .. 2}}

\* C21: in every reachable state the board holds no complete line: no row,
\* column or diagonal has its three cells held by the same player.
C21_NoLineOnBoard ==
  \A line \in Lines, p \in Player :
    \E rc \in line : board[rc[1]][rc[2]] # p

\* X has placed its third mark without completing a line
C21_Witness ==
  /\ ret = Void
  /\ turnCount = 5
  /\ Cardinality({rc \in Idx \X Idx : board[rc[1]][rc[2]] = "X"}) = 3
  /\ Cardinality({rc \in Idx \X Idx : board[rc[1]][rc[2]] = "O"}) = 2

\* C22: in every reachable state currentPlayer is X exactly when turnCount is
\* even and O exactly when it is odd, and every history entry's player is X
\* exactly when its turn is even.
C22_Parity ==
  /\ (currentPlayer = "X") <=> (turnCount % 2 = 0)
  /\ (currentPlayer = "O") <=> (turnCount % 2 = 1)
  /\ \A i \in 1 .. Len(playHistory) :
       (playHistory[i].player = "X") <=> (playHistory[i].turn % 2 = 0)

\* X has won with its third or fourth mark: the win left currentPlayer X
\* after an odd number of moves, and the reset has put turnCount back to 0
C22_Witness ==
  /\ ret = WinMsg("X")
  /\ currentPlayer = "X"
  /\ turnCount = 0
  /\ playHistory = <<>>
  /\ winnerTimeoutId # NoTimer

TypeOK ==
  /\ board \in [Idx -> [Idx -> Cell]]
  /\ currentPlayer \in Player
  /\ turnCount \in 0 .. MaxTurn
  /\ winnerTimeoutId \in Nat
  /\ ret \in {NoCall, Void, InvalidMsg, TakenMsg} \cup WinMsgs
====
